---- MODULE Spec2Model ----
(***************************************************************************)
(* Model of computer_use_demo/tools/computer.py: the display enumeration   *)
(* (get_screen_details), the coordinate scaler                             *)
(* (ComputerTool.scale_coordinates) and the action dispatcher              *)
(* (ComputerTool.__call__) with the two backends it drives (pyautogui for  *)
(* a native monitor, adbutils for an Android device).                      *)
(*                                                                         *)
(* Python floats are modelled by exact rational arithmetic on integers.    *)
(* round() of a value that is exactly halfway between two integers depends *)
(* on the float error of the preceding division or product (the code       *)
(* rounds x / (tw / w), not x * w / tw), so in that case the model allows  *)
(* both neighbours.                                                        *)
(***************************************************************************)
EXTENDS Integers, Sequences, FiniteSets, TLC

VARIABLES
    selected_screen,   \* self.selected_screen, self.width, self.height
    monitor_origin,    \* position of the bound monitor in the virtual desktop
    system,            \* platform.system()
    offset,            \* <<self.offset_x, self.offset_y>>
    target_dimension,  \* self.target_dimension ("unset": no such attribute)
    adb_mouse,         \* self._adb_mouse
    pointer,           \* the OS pointer position (pyautogui.position())
    held,              \* keys the OS currently sees as held down
    request,           \* the ActionRequest of the last call
    result,            \* what the last call returned or raised
    calls,             \* backend calls issued by the last call, in order
    history,           \* what the adapter has done so far (no field of the
                       \* program: kept to state properties over its past)
    probe              \* input and output of a direct scaler / registry call

toolVars == <<selected_screen, monitor_origin, system, offset,
              target_dimension, adb_mouse, pointer, held, request, result,
              calls, history>>
vars == <<selected_screen, monitor_origin, system, offset, target_dimension,
          adb_mouse, pointer, held, request, result, calls, history, probe>>

----------------------------------------------------------------------------
(* Bounds *)

\* the scaler checks take native resolutions from a grid of multiples of 40,
\* up to 40 * MaxGridW by 40 * MaxGridH, and the table's own resolutions
MaxGridW == 64
MaxGridH == 64

----------------------------------------------------------------------------
(* Constants of the program *)

MONITOR == "monitor"
ADB == "adb"

MAX_SCALING_TARGETS ==
    << [name |-> "XGA",   width |-> 1024, height |-> 768],
       [name |-> "WXGA",  width |-> 1280, height |-> 800],
       [name |-> "FWXGA", width |-> 1366, height |-> 768] >>

TargetNames == {MAX_SCALING_TARGETS[i].name : i \in DOMAIN MAX_SCALING_TARGETS}

Target(name) ==
    CHOOSE d \in {MAX_SCALING_TARGETS[i] : i \in DOMAIN MAX_SCALING_TARGETS} :
        d.name = name

_scaling_enabled == TRUE

COMPUTER == "computer"
API == "api"

----------------------------------------------------------------------------
(* Arithmetic *)

Abs(n) == IF n < 0 THEN -n ELSE n

\* round(n / d) for n >= 0, d > 0: the nearest integer; both neighbours when
\* n / d is exactly halfway.
Round(n, d) ==
    LET q == n \div d
        r == n % d
    IN  IF 2 * r < d THEN {q}
        ELSE IF 2 * r > d THEN {q + 1}
        ELSE {q, q + 1}

----------------------------------------------------------------------------
(* ComputerTool.scale_coordinates *)

\* the tolerance taken as 2% of the entry's ratio
RatioMatches_relative(dimension, w, h) ==
    50 * Abs(dimension.width * h - w * dimension.height) < dimension.width * h

\* abs(dimension.width / dimension.height - ratio) < 0.02
RatioMatches(dimension, w, h) ==
    50 * Abs(dimension.width * h - w * dimension.height) < dimension.height * h

\* the comparison made non-strict
NarrowerThan_orEqual(dimension, w) == dimension.width <= w

\* dimension.width < self.width
NarrowerThan(dimension, w) == dimension.width < w

\* The for loop over MAX_SCALING_TARGETS.items(), from entry i on: the local
\* target_dimension after the loop ("none" while it is still None).  The
\* loop breaks at the first entry whose ratio matches, assigned or not.
RECURSIVE ScanTargets(_, _, _)
ScanTargets(i, w, h) ==
    IF i > Len(MAX_SCALING_TARGETS) THEN "none"
    ELSE LET dimension == MAX_SCALING_TARGETS[i]
         IN  IF RatioMatches(dimension, w, h)
             THEN (IF NarrowerThan(dimension, w) THEN dimension.name
                   ELSE "none")
             ELSE ScanTargets(i + 1, w, h)

\* The target_dimension scale_coordinates works with, and stores in
\* self.target_dimension, for a display of w x h.
ChosenTarget(w, h) ==
    LET t == ScanTargets(1, w, h)
    IN  IF t = "none" THEN "WXGA" ELSE t

\* if x > self.width or y > self.height
OutOfBounds(x, y, w, h) == x > w \/ y > h

\* The values scale_coordinates(source, x, y) can return on a display of
\* w x h, as [error, x, y]; error is "" or the message of the ToolError.
ScaleCoordinates(source, x, y, w, h) ==
    IF ~_scaling_enabled THEN {[error |-> "", x |-> x, y |-> y]}
    ELSE LET dimension == Target(ChosenTarget(w, h))
         IN  IF source = API
             THEN IF OutOfBounds(x, y, w, h)
                  THEN {[error |-> "are out of bounds", x |-> x, y |-> y]}
                  ELSE {[error |-> "", x |-> rx, y |-> ry] :
                           rx \in Round(x * w, dimension.width),
                           ry \in Round(y * h, dimension.height)}
             ELSE {[error |-> "", x |-> rx, y |-> ry] :
                      rx \in Round(x * dimension.width, w),
                      ry \in Round(y * dimension.height, h)}

\* self.target_dimension after a call of scale_coordinates: the assignment
\* precedes the bounds check, and is skipped when scaling is disabled.
TargetAfterScale(current, w, h) ==
    IF _scaling_enabled THEN ChosenTarget(w, h) ELSE current

----------------------------------------------------------------------------
(* Requests and results *)

NoText == [some |-> FALSE, keys |-> <<>>]
NoCoordinate == [some |-> FALSE, v |-> <<>>]
NoRequest == [action |-> "none", text |-> NoText, coordinate |-> NoCoordinate]

NoImage == <<>>

\* ToolResult(output=..., base64_image=...)
ToolResult(msg, args, image) ==
    [raised |-> "", msg |-> msg, args |-> args, base64_image |-> image]

\* raise ToolError(f"{msg} ...")
ToolError(msg, args) ==
    [raised |-> "ToolError", msg |-> msg, args |-> args,
     base64_image |-> NoImage]

\* an exception of another class leaving __call__
Raised(class, msg) ==
    [raised |-> class, msg |-> msg, args |-> <<>>, base64_image |-> NoImage]

NoResult == [raised |-> "", msg |-> "none", args |-> <<>>,
             base64_image |-> NoImage]

NoProbe == [op |-> "none"]

----------------------------------------------------------------------------
(* ComputerTool.__init__ *)

\* The state after ComputerTool(selected_screen), on platform sys, with the
\* bound monitor at origin in the virtual desktop.
\* history.move: the logical coordinate of the last mouse_move that returned,
\* <<>> before the first and after any later drag; history.captured: some
\* screenshot has returned an image
NoHistory == [move |-> <<>>, captured |-> FALSE]

Construct(screen, origin, sys) ==
    /\ selected_screen = screen
    /\ monitor_origin = origin
    /\ system = sys
    /\ offset = <<0, 0>>
    /\ target_dimension = "unset"
    /\ adb_mouse = <<0, 0>>
    /\ pointer = <<0, 0>>
    /\ held = {}
    /\ request = NoRequest
    /\ result = NoResult
    /\ calls = <<>>
    /\ history = NoHistory

\* Screen(type_=MONITOR, index=i, size=Resolution(w, h), ...)
MonitorScreen(i, w, h) ==
    [type_ |-> MONITOR, index |-> i, width |-> w, height |-> h]

\* Screen(type_=ADB, index=0, size=Resolution(w, h), ...)
AdbScreen(w, h) ==
    [type_ |-> ADB, index |-> 0, width |-> w, height |-> h]

\* self._adb_device is not None
HasAdbDevice == selected_screen.type_ = ADB

----------------------------------------------------------------------------
(* ComputerTool.options *)

Options ==
    /\ \E r \in ScaleCoordinates(COMPUTER, selected_screen.width,
                                  selected_screen.height,
                                  selected_screen.width,
                                  selected_screen.height) :
          result' = ToolResult("options", <<r.x, r.y>>, NoImage)
    /\ target_dimension' =
          TargetAfterScale(target_dimension, selected_screen.width,
                           selected_screen.height)
    /\ request' = [NoRequest EXCEPT !.action = "options"]
    /\ calls' = <<>>
    /\ UNCHANGED <<selected_screen, monitor_origin, system, offset, adb_mouse,
                   pointer, held, history, probe>>

----------------------------------------------------------------------------
(* The requests tried on the dispatcher *)

\* a key combination has at most MaxKeys keys
MaxKeys == 2

Actions == {"key", "type", "mouse_move", "left_click", "left_click_drag",
            "right_click", "middle_click", "double_click", "screenshot",
            "cursor_position"}

KeyNames == {"Ctrl", "Page_Down"}

\* text, as the list text.split('+') makes of it
KeyCombinations == UNION {[1..n -> KeyNames] : n \in 1..MaxKeys}

Texts == {NoText} \cup {[some |-> TRUE, keys |-> k] : k \in KeyCombinations}

\* a component of a coordinate: an int, or something else (1.5)
IntValue(n) == [int |-> TRUE, n |-> n]
NonInt == [int |-> FALSE, n |-> 1]

\* The points tried on the bound display: the corners of the logical frame
\* and of the native resolution, the points just outside, and negative ones.
Points ==
    LET w == selected_screen.width
        h == selected_screen.height
        frame == Target(ChosenTarget(w, h))
    IN  { <<0, 0>>, <<-1, 0>>, <<0, -1>>,
          <<frame.width \div 2, frame.height \div 2>>,
          <<frame.width - 1, frame.height - 1>>,
          <<w - 1, h - 1>>, <<w, h>>, <<w + 1, 0>>, <<0, h + 1>> }

Coordinates ==
    {NoCoordinate}
    \cup {[some |-> TRUE, v |-> <<IntValue(p[1]), IntValue(p[2])>>] :
             p \in Points}
    \cup {[some |-> TRUE, v |-> v] :
             v \in { <<IntValue(0)>>,
                     <<IntValue(0), IntValue(0), IntValue(0)>>,
                     <<NonInt, IntValue(0)>>, <<IntValue(0), NonInt>> }}

SomeText == [some |-> TRUE, keys |-> <<"Ctrl">>]
SomeCoordinate == [some |-> TRUE, v |-> <<IntValue(0), IntValue(0)>>]

\* The <<text, coordinate>> pairs tried with an action: absent and present
\* in every combination, and every value of a field for the actions that
\* read the field.
Arguments(action) ==
    {NoText, SomeText} \X {NoCoordinate, SomeCoordinate}
    \cup (IF action \in {"mouse_move", "left_click_drag"}
          THEN {<<NoText, c>> : c \in Coordinates} ELSE {})
    \cup (IF action \in {"key", "type"}
          THEN {<<t, NoCoordinate>> : t \in Texts} ELSE {})

Request(action, a) == [action |-> action, text |-> a[1], coordinate |-> a[2]]

----------------------------------------------------------------------------
(* ComputerTool.__call__ *)

Call(fn, args) == [fn |-> fn, args |-> args]

\* what a call leaves behind for the caller
Respond(req, res, cs) ==
    /\ request' = req
    /\ result' = res
    /\ calls' = cs

\* a call that raises before it has touched anything
Reject(req, res) ==
    /\ Respond(req, res, <<>>)
    /\ UNCHANGED <<offset, target_dimension, adb_mouse, pointer, held,
                   history>>

\* the check without its i >= 0
NonNegativeInts_signUnchecked(v) == \A i \in DOMAIN v : v[i].int

\* all(isinstance(i, int) and i >= 0 for i in coordinate)
NonNegativeInts(v) == \A i \in DOMAIN v : v[i].int /\ v[i].n >= 0

\* The checks of a mouse_move or left_click_drag request before the
\* conversion: the ToolError raised, NoResult when there is none.
CoordinateActionError(req) ==
    IF ~req.coordinate.some
    THEN ToolError("coordinate is required for", <<req.action>>)
    ELSE IF req.text.some
    THEN ToolError("text is not accepted for", <<req.action>>)
    ELSE IF Len(req.coordinate.v) # 2
    THEN ToolError("must be a tuple of length 2", <<>>)
    ELSE IF ~NonNegativeInts(req.coordinate.v)
    THEN ToolError("must be a tuple of non-negative ints", <<>>)
    ELSE NoResult

\* The checks of a key or type request.
TextActionError(req) ==
    IF ~req.text.some
    THEN ToolError("text is required for", <<req.action>>)
    ELSE IF req.coordinate.some
    THEN ToolError("coordinate is not accepted for", <<req.action>>)
    ELSE NoResult

\* the checks without the one of the coordinate
PlainActionError_coordinateUnchecked(req) ==
    IF req.text.some
    THEN ToolError("text is not accepted for", <<req.action>>)
    ELSE NoResult

\* The checks of a click, screenshot or cursor_position request.
PlainActionError(req) ==
    IF req.text.some
    THEN ToolError("text is not accepted for", <<req.action>>)
    ELSE IF req.coordinate.some
    THEN ToolError("coordinate is not accepted for", <<req.action>>)
    ELSE NoResult

\* scale_coordinates(ScalingSource.API, coordinate[0], coordinate[1]): the
\* values it can return
Conversions(req) ==
    ScaleCoordinates(API, req.coordinate.v[1].n, req.coordinate.v[2].n,
                     selected_screen.width, selected_screen.height)

\* the ToolError of scale_coordinates leaves __call__
ConversionFails(req, r) ==
    /\ Respond(req, ToolError(r.error, <<r.x, r.y>>), <<>>)
    /\ UNCHANGED <<offset, adb_mouse, pointer, held, history>>

MouseMove ==
    \E a \in Arguments("mouse_move") :
        LET req == Request("mouse_move", a)
        IN  /\ IF CoordinateActionError(req) # NoResult
               THEN Reject(req, CoordinateActionError(req))
               ELSE /\ target_dimension' =
                          TargetAfterScale(target_dimension,
                                           selected_screen.width,
                                           selected_screen.height)
                    /\ \E r \in Conversions(req) :
                          IF r.error # "" THEN ConversionFails(req, r)
                          ELSE LET x == r.x + offset[1]
                                   y == r.y + offset[2]
                               IN  /\ IF HasAdbDevice
                                      THEN /\ adb_mouse' = <<x, y>>
                                           /\ calls' = <<>>
                                           /\ UNCHANGED pointer
                                      ELSE /\ pointer' = <<x, y>>
                                           /\ calls' =
                                                <<Call("moveTo", <<x, y>>)>>
                                           /\ UNCHANGED adb_mouse
                                   /\ request' = req
                                   /\ result' = ToolResult("Moved mouse to",
                                                           <<x, y>>, NoImage)
                                   /\ history' =
                                        [history EXCEPT !.move =
                                            <<req.coordinate.v[1].n,
                                              req.coordinate.v[2].n>>]
                                   /\ UNCHANGED <<offset, held>>
            /\ UNCHANGED <<selected_screen, monitor_origin, system, probe>>

LeftClickDrag ==
    \E a \in Arguments("left_click_drag") :
        LET req == Request("left_click_drag", a)
        IN  /\ IF CoordinateActionError(req) # NoResult
               THEN Reject(req, CoordinateActionError(req))
               ELSE /\ target_dimension' =
                          TargetAfterScale(target_dimension,
                                           selected_screen.width,
                                           selected_screen.height)
                    /\ \E r \in Conversions(req) :
                          IF r.error # "" THEN ConversionFails(req, r)
                          ELSE LET x == r.x + offset[1]
                                   y == r.y + offset[2]
                               IN  /\ IF HasAdbDevice
                                      THEN \* the swipe is made and the
                                           \* position updated; the return
                                           \* statement then reads current_x,
                                           \* which only the other branch
                                           \* assigns
                                           /\ adb_mouse' = <<x, y>>
                                           /\ calls' =
                                                <<Call("swipe",
                                                       <<adb_mouse[1],
                                                         adb_mouse[2],
                                                         x, y>>)>>
                                           /\ result' =
                                                Raised("UnboundLocalError",
                                                       "current_x")
                                           /\ UNCHANGED pointer
                                      ELSE /\ pointer' = <<x, y>>
                                           /\ calls' =
                                                <<Call("position", <<>>),
                                                  Call("dragTo", <<x, y>>)>>
                                           /\ result' =
                                                ToolResult(
                                                    "Dragged mouse from",
                                                    <<pointer[1], pointer[2],
                                                      x, y>>, NoImage)
                                           /\ UNCHANGED adb_mouse
                                   /\ request' = req
                                   /\ history' =
                                        [history EXCEPT !.move = <<>>]
                                   /\ UNCHANGED <<offset, held>>
            /\ UNCHANGED <<selected_screen, monitor_origin, system, probe>>

\* self.key_conversion.get(key.strip(), key.strip())
KeyConversion(key) ==
    CASE key = "Page_Down" -> "pagedown"
      [] key = "Page_Up" -> "pageup"
      [] key = "Super_L" -> "win"
      [] OTHER -> key

\* key.lower()
Lower(key) ==
    CASE key = "Ctrl" -> "ctrl"
      [] OTHER -> key

ConvertKey(key) == Lower(KeyConversion(key))

\* the keys the OS sees as held after the injections cs, from held set h
RECURSIVE HeldAfter(_, _)
HeldAfter(h, cs) ==
    IF cs = <<>> THEN h
    ELSE LET c == Head(cs)
         IN  HeldAfter(IF c.fn = "keyDown" THEN h \cup {c.args[1]}
                       ELSE IF c.fn = "keyUp" THEN h \ {c.args[1]}
                       ELSE h,
                       Tail(cs))

\* for key in keys: pyautogui.keyDown(...)
KeyDowns(keys) == [i \in 1..Len(keys) |-> Call("keyDown", <<ConvertKey(keys[i])>>)]

\* the releases in the order of the presses
KeyUps_pressOrder(keys) ==
    [i \in 1..Len(keys) |-> Call("keyUp", <<ConvertKey(keys[i])>>)]

\* for key in reversed(keys): pyautogui.keyUp(...)
KeyUps(keys) ==
    [i \in 1..Len(keys) |->
        Call("keyUp", <<ConvertKey(keys[Len(keys) + 1 - i])>>)]

\* The injections a key action makes on the desktop when the keyDown of key
\* number failAt raises (0: none does): nothing catches the exception, so
\* the action ends there.
KeyInjections(keys, failAt) ==
    IF failAt = 0 THEN KeyDowns(keys) \o KeyUps(keys)
    ELSE SubSeq(KeyDowns(keys), 1, failAt - 1)

Key ==
    \E a \in Arguments("key") :
        LET req == Request("key", a)
            keys == req.text.keys
        IN  /\ IF TextActionError(req) # NoResult
               THEN Reject(req, TextActionError(req))
               ELSE IF HasAdbDevice
               THEN \* one shell call per key, each naming all the keys
                    /\ Respond(req,
                               ToolResult("Pressed keys", keys, NoImage),
                               [i \in 1..Len(keys) |->
                                   Call("shell input keyevent", keys)])
                    /\ UNCHANGED <<offset, target_dimension, adb_mouse,
                                   pointer, held, history>>
               ELSE \E failAt \in 0..Len(keys) :
                    /\ Respond(req,
                               IF failAt = 0
                               THEN ToolResult("Pressed keys", keys, NoImage)
                               ELSE Raised("BackendError", "keyDown"),
                               KeyInjections(keys, failAt))
                    /\ held' = HeldAfter(held, KeyInjections(keys, failAt))
                    /\ UNCHANGED <<offset, target_dimension, adb_mouse,
                                   pointer, history>>
            /\ UNCHANGED <<selected_screen, monitor_origin, system, probe>>

\* ComputerTool.screenshot after the backend calls cs of the same request:
\* screenshot_from_adb saves the device's image as it is;
\* screenshot_from_monitor grabs the monitor's box, records its origin as
\* the offsets, pads the image and sets target_dimension to WXGA when the
\* attribute does not exist yet, and resizes to target_dimension.  On Linux
\* it reads screen.x, which no line of that branch assigns.
Screenshot(req, msg, args, cs) ==
    LET w == selected_screen.width
        h == selected_screen.height
    IN  IF selected_screen.type_ = ADB
        THEN /\ Respond(req, ToolResult(msg, args, <<w, h>>),
                        Append(cs, Call("adb screenshot", <<>>)))
             /\ history' = [history EXCEPT !.captured = TRUE]
             /\ UNCHANGED <<offset, target_dimension>>
        ELSE IF system = "Linux"
        THEN /\ \/ Respond(req, Raised("RuntimeError", "xrandr"), cs)
                \/ Respond(req, Raised("UnboundLocalError", "screen"),
                           Append(cs, Call("grab", <<0, 0>>)))
             /\ UNCHANGED <<offset, target_dimension, history>>
        ELSE LET target == IF target_dimension = "unset" THEN "WXGA"
                           ELSE target_dimension
                 grab == Call("grab", <<monitor_origin[1], monitor_origin[2],
                                        monitor_origin[1] + w,
                                        monitor_origin[2] + h>>)
                 pad == IF target_dimension = "unset"
                        THEN <<Call("padding_image", <<(h * 16) \div 10, h>>)>>
                        ELSE <<>>
                 resize == Call("resize", <<Target(target).width,
                                            Target(target).height>>)
             IN  /\ offset' = monitor_origin
                 /\ target_dimension' = target
                 /\ history' = [history EXCEPT !.captured = TRUE]
                 /\ Respond(req,
                            ToolResult(msg, args, <<Target(target).width,
                                                    Target(target).height>>),
                            cs \o <<grab>> \o pad \o <<resize>>)

Type ==
    \E a \in Arguments("type") :
        LET req == Request("type", a)
            keys == req.text.keys
        IN  /\ IF TextActionError(req) # NoResult
               THEN Reject(req, TextActionError(req))
               ELSE /\ Screenshot(req, "typed", keys,
                                  IF HasAdbDevice
                                  THEN <<Call("send_keys", keys)>>
                                  ELSE <<Call("typewrite", keys)>>)
                    /\ UNCHANGED <<adb_mouse, pointer, held>>
            /\ UNCHANGED <<selected_screen, monitor_origin, system, probe>>

TakeScreenshot ==
    \E a \in Arguments("screenshot") :
        LET req == Request("screenshot", a)
        IN  /\ IF PlainActionError(req) # NoResult
               THEN Reject(req, PlainActionError(req))
               ELSE /\ Screenshot(req, "", <<>>, <<>>)
                    /\ UNCHANGED <<adb_mouse, pointer, held>>
            /\ UNCHANGED <<selected_screen, monitor_origin, system, probe>>

CursorPosition ==
    \E a \in Arguments("cursor_position") :
        LET req == Request("cursor_position", a)
            position == IF HasAdbDevice THEN adb_mouse ELSE pointer
        IN  /\ IF PlainActionError(req) # NoResult
               THEN Reject(req, PlainActionError(req))
               ELSE /\ \E r \in ScaleCoordinates(COMPUTER, position[1],
                                                 position[2],
                                                 selected_screen.width,
                                                 selected_screen.height) :
                          Respond(req,
                                  ToolResult("X=,Y=", <<r.x, r.y>>, NoImage),
                                  IF HasAdbDevice THEN <<>>
                                  ELSE <<Call("position", <<>>)>>)
                    /\ target_dimension' =
                          TargetAfterScale(target_dimension,
                                           selected_screen.width,
                                           selected_screen.height)
                    /\ UNCHANGED <<offset, adb_mouse, pointer, held,
                                   history>>
            /\ UNCHANGED <<selected_screen, monitor_origin, system, probe>>

LeftClick ==
    \E a \in Arguments("left_click") :
        LET req == Request("left_click", a)
        IN  /\ IF PlainActionError(req) # NoResult
               THEN Reject(req, PlainActionError(req))
               ELSE /\ Respond(req,
                               ToolResult("Performed", <<req.action>>,
                                          NoImage),
                               IF HasAdbDevice
                               THEN <<Call("shell input tap", adb_mouse)>>
                               ELSE <<Call("click", <<>>)>>)
                    /\ UNCHANGED <<offset, target_dimension, adb_mouse,
                                   pointer, held, history>>
            /\ UNCHANGED <<selected_screen, monitor_origin, system, probe>>

\* right_click, middle_click and double_click: the branch raises on either
\* backend
OtherClick ==
    \E action \in {"right_click", "middle_click", "double_click"} :
    \E a \in Arguments(action) :
        LET req == Request(action, a)
        IN  /\ IF PlainActionError(req) # NoResult
               THEN Reject(req, PlainActionError(req))
               ELSE Reject(req, ToolError("not supported for ADB devices",
                                          <<req.action>>))
            /\ UNCHANGED <<selected_screen, monitor_origin, system, probe>>

\* an action name outside Action: no branch takes it
InvalidAction ==
    \E a \in Arguments("scroll") :
        LET req == Request("scroll", a)
        IN  /\ Reject(req, ToolError("Invalid action", <<req.action>>))
            /\ UNCHANGED <<selected_screen, monitor_origin, system, probe>>

----------------------------------------------------------------------------
(* The dispatcher on a bound display *)

\* the displays an adapter is bound to: the second monitor of a desktop, at
\* the right of the first; a lone 4:3 monitor; a portrait Android device
Displays ==
    { [screen |-> MonitorScreen(1, 1920, 1080), origin |-> <<1920, 0>>],
      [screen |-> MonitorScreen(0, 1024, 768), origin |-> <<0, 0>>],
      [screen |-> AdbScreen(1080, 1920), origin |-> <<0, 0>>] }

Systems == {"Windows", "Darwin", "Linux"}

Init ==
    /\ \E d \in Displays, sys \in Systems : Construct(d.screen, d.origin, sys)
    /\ probe = NoProbe

Next ==
    \/ MouseMove
    \/ LeftClickDrag
    \/ Key
    \/ Type
    \/ TakeScreenshot
    \/ CursorPosition
    \/ LeftClick
    \/ OtherClick
    \/ InvalidAction
    \/ Options

Spec == Init /\ [][Next]_vars

----------------------------------------------------------------------------
(* The pointer requests on ADB devices of several resolutions *)

\* device.window_size() of the device the adapter is bound to: phones and
\* tablets in either orientation, a watch, and a device whose size was
\* overridden (wm size) to less than a third of the fallback frame's width
RemoteResolutions ==
    { <<1080, 1920>>, <<1920, 1080>>, <<2560, 1600>>, <<480, 800>>,
      <<320, 320>>, <<390, 844>> }

InitRemote ==
    /\ \E res \in RemoteResolutions :
          Construct(AdbScreen(res[1], res[2]), <<0, 0>>, "Linux")
    /\ probe = NoProbe

NextRemote ==
    \/ MouseMove
    \/ LeftClickDrag
    \/ CursorPosition
    \/ LeftClick

SpecRemote == InitRemote /\ [][NextRemote]_vars

----------------------------------------------------------------------------
(* The scaler on a grid of native resolutions *)

GridResolutions ==
    {<<40 * i, 40 * j>> : i \in 1..MaxGridW, j \in 1..MaxGridH}
    \cup {<<MAX_SCALING_TARGETS[i].width, MAX_SCALING_TARGETS[i].height>> :
              i \in DOMAIN MAX_SCALING_TARGETS}

InitFrame ==
    /\ \E res \in GridResolutions :
          Construct(MonitorScreen(0, res[1], res[2]), <<0, 0>>, "Windows")
    /\ probe = NoProbe

NextFrame == Options

SpecFrame == InitFrame /\ [][NextFrame]_vars

----------------------------------------------------------------------------
(* Direct calls of scale_coordinates: a native coordinate converted to     *)
(* logical space and back, and an actor-supplied coordinate converted to   *)
(* native space                                                            *)

\* coordinates tried on an axis of n native pixels: MaxProbe + 1 evenly
\* spread values, and the values around the far edge
MaxProbe == 8

ProbeResolutions ==
    { <<1920, 1080>>, <<2560, 1600>>, <<1600, 1200>>, <<1366, 768>>,
      <<1024, 768>>, <<800, 600>>, <<1080, 1920>> }

ProbeAxis(n) ==
    {(i * (n - 1)) \div MaxProbe : i \in 0..MaxProbe} \cup {n - 1, n, n + 1}

InitScale ==
    /\ \E res \in ProbeResolutions :
          /\ Construct(MonitorScreen(0, res[1], res[2]), <<0, 0>>, "Windows")
          /\ \E x \in ProbeAxis(res[1]), y \in ProbeAxis(res[2]) :
                probe = [op |-> "start", x |-> x, y |-> y, lx |-> 0, ly |-> 0,
                         nx |-> 0, ny |-> 0, error |-> ""]

\* scale_coordinates(ScalingSource.COMPUTER, x, y) on a native coordinate
ToLogical ==
    /\ probe.op = "start"
    /\ \E r \in ScaleCoordinates(COMPUTER, probe.x, probe.y,
                                  selected_screen.width,
                                  selected_screen.height) :
          probe' = [probe EXCEPT !.op = "logical", !.lx = r.x, !.ly = r.y,
                                 !.error = r.error]
    /\ target_dimension' =
          TargetAfterScale(target_dimension, selected_screen.width,
                           selected_screen.height)
    /\ UNCHANGED <<selected_screen, monitor_origin, system, offset, adb_mouse,
                   pointer, held, request, result, calls, history>>

\* scale_coordinates(ScalingSource.API, lx, ly) on the result of ToLogical
BackToNative ==
    /\ probe.op = "logical"
    /\ \E r \in ScaleCoordinates(API, probe.lx, probe.ly,
                                  selected_screen.width,
                                  selected_screen.height) :
          probe' = [probe EXCEPT !.op = "roundtrip", !.nx = r.x, !.ny = r.y,
                                 !.error = r.error]
    /\ target_dimension' =
          TargetAfterScale(target_dimension, selected_screen.width,
                           selected_screen.height)
    /\ UNCHANGED <<selected_screen, monitor_origin, system, offset, adb_mouse,
                   pointer, held, request, result, calls, history>>

\* scale_coordinates(ScalingSource.API, x, y) on an actor-supplied coordinate
ToNative ==
    /\ probe.op = "start"
    /\ \E r \in ScaleCoordinates(API, probe.x, probe.y,
                                  selected_screen.width,
                                  selected_screen.height) :
          probe' = [probe EXCEPT !.op = "native", !.nx = r.x, !.ny = r.y,
                                 !.error = r.error]
    /\ target_dimension' =
          TargetAfterScale(target_dimension, selected_screen.width,
                           selected_screen.height)
    /\ UNCHANGED <<selected_screen, monitor_origin, system, offset, adb_mouse,
                   pointer, held, request, result, calls, history>>

NextScale == ToLogical \/ BackToNative \/ ToNative

SpecScale == InitScale /\ [][NextScale]_vars

----------------------------------------------------------------------------
(* get_screen_details *)

\* at most MaxMonitors native monitors and MaxDevices Android devices
MaxMonitors == 3
MaxDevices == 1

\* sorted(screens, key=lambda s: s.x) with one more element m: the sort is
\* stable, so m goes after every element whose x is not greater.
RECURSIVE InsertByX(_, _)
InsertByX(sorted, m) ==
    IF sorted = <<>> THEN <<m>>
    ELSE IF sorted[Len(sorted)].x <= m.x THEN Append(sorted, m)
    ELSE Append(InsertByX(SubSeq(sorted, 1, Len(sorted) - 1), m),
                sorted[Len(sorted)])

RECURSIVE SortedByX(_)
SortedByX(screens) ==
    IF screens = <<>> THEN <<>>
    ELSE InsertByX(SortedByX(SubSeq(screens, 1, Len(screens) - 1)),
                   screens[Len(screens)])

\* the layout given to entry i (from 0) of n sorted monitors
Layout(i, n) ==
    IF i = 0 THEN "Left"
    ELSE IF i = n - 1 THEN "Right"
    ELSE "Center"

\* primary_index after the loop over the first n sorted monitors
RECURSIVE PrimaryIndex(_, _)
PrimaryIndex(sorted, n) ==
    IF n = 0 THEN 0
    ELSE IF sorted[n].is_primary THEN n - 1
    ELSE PrimaryIndex(sorted, n - 1)

\* the Screen built for entry i (from 0) of the sorted monitors
MonitorDetails(sorted, i) ==
    [type_ |-> MONITOR, index |-> i, name |-> "None",
     width |-> sorted[i + 1].width, height |-> sorted[i + 1].height,
     layout |-> Layout(i, Len(sorted)),
     position |-> IF sorted[i + 1].is_primary THEN "Primary"
                  ELSE "Secondary"]

\* the Screen built for a device the ADB server lists
DeviceDetails(device) ==
    [type_ |-> ADB, index |-> 0, name |-> device.serialno,
     width |-> device.width, height |-> device.height,
     layout |-> "None", position |-> "None"]

\* The environment of an enumeration: the monitors as get_monitors() lists
\* them (never none: it raises instead), each with an id that is its place
\* in that list, of which the OS reports at most one as primary and may
\* report none; and the ADB server, reachable or not, with its devices.
MonitorLists ==
    UNION {
        { m \in [1..n -> [x : {0, 1920, 3840}, is_primary : BOOLEAN,
                          width : {1920}, height : {1080}, id : 1..n]] :
            /\ \A i \in 1..n : m[i].id = i
            /\ Cardinality({i \in 1..n : m[i].is_primary}) <= 1 }
        : n \in 1..MaxMonitors }

DeviceLists ==
    UNION { [1..n -> [serialno : {"emulator-5554"}, width : {1080},
                      height : {1920}]] : n \in 0..MaxDevices }

InitEnum ==
    /\ Construct(MonitorScreen(0, 1920, 1080), <<0, 0>>, "Windows")
    /\ \E m \in MonitorLists, d \in DeviceLists, up \in BOOLEAN :
          probe = [op |-> "environment", monitors |-> m, adb_up |-> up,
                   devices |-> d, sorted_screens |-> <<>>,
                   screen_details |-> <<>>, primary_index |-> 0,
                   raised |-> ""]

GetScreenDetails ==
    /\ probe.op = "environment"
    /\ LET sorted == SortedByX(probe.monitors)
           natives == [i \in 1..Len(sorted) |-> MonitorDetails(sorted, i - 1)]
           remotes == [i \in 1..Len(probe.devices) |->
                          DeviceDetails(probe.devices[i])]
       IN  IF probe.adb_up
           THEN probe' = [probe EXCEPT
                    !.op = "enumerated",
                    !.sorted_screens = sorted,
                    !.screen_details = natives \o remotes,
                    !.primary_index = PrimaryIndex(sorted, Len(sorted))]
           ELSE \* adb.device_list() raises; nothing catches it
                probe' = [probe EXCEPT
                    !.op = "enumerated",
                    !.sorted_screens = sorted,
                    !.raised = "AdbError"]
    /\ UNCHANGED toolVars

NextEnum == GetScreenDetails

SpecEnum == InitEnum /\ [][NextEnum]_vars

----------------------------------------------------------------------------
(* Claims about the dispatcher (Spec) *)

\* the per-action argument contract
TextRequired(action) == action \in {"key", "type"}
CoordinateRequired(action) == action \in {"mouse_move", "left_click_drag"}

FieldsMatchContract(req) ==
    /\ req.text.some <=> TextRequired(req.action)
    /\ req.coordinate.some <=> CoordinateRequired(req.action)

WellFormed(coordinate) ==
    /\ Len(coordinate.v) = 2
    /\ \A i \in DOMAIN coordinate.v :
          coordinate.v[i].int /\ coordinate.v[i].n >= 0

ViolatesContract(req) ==
    \/ req.action \notin Actions
    \/ ~FieldsMatchContract(req)
    \/ req.coordinate.some /\ ~WellFormed(req.coordinate)

\* the ToolErrors about the arguments of a request
IsArgumentError(res) ==
    /\ res.raised = "ToolError"
    /\ res.msg \in {"Invalid action", "coordinate is required for",
                    "text is not accepted for", "text is required for",
                    "coordinate is not accepted for",
                    "must be a tuple of length 2",
                    "must be a tuple of non-negative ints"}

IsOutOfBounds(res) ==
    res.raised = "ToolError" /\ res.msg = "are out of bounds"

IsUnsupported(res, action) ==
    /\ res.raised = "ToolError"
    /\ res.msg = "not supported for ADB devices"
    /\ res.args = <<action>>

\* C1: a call whose request violates the argument contract raises an
\* argument error, makes no backend call, and leaves the tracked pointer
\* position, the capture offsets and the cached logical frame as they were.
C1_InvalidRequestHasNoEffect ==
    [][(request'.action # "options" /\ ViolatesContract(request')) =>
          /\ IsArgumentError(result')
          /\ calls' = <<>>
          /\ UNCHANGED <<adb_mouse, offset, target_dimension, pointer, held>>
      ]_vars

\* a negative coordinate refused by an adapter that has derived its frame
C1_Witness ==
    /\ request.action = "mouse_move"
    /\ request.coordinate.some
    /\ Len(request.coordinate.v) = 2
    /\ request.coordinate.v[1].n < 0
    /\ IsArgumentError(result)
    /\ target_dimension # "unset"

\* C2: a request for an action of the closed set, its coordinate well
\* formed when present, passes the argument validation exactly when the
\* presence of its text and of its coordinate is what the table says.
C2_ValidationMatchesTable ==
    (/\ request.action \in Actions
     /\ request.coordinate.some => WellFormed(request.coordinate))
    => (IsArgumentError(result) <=> ~FieldsMatchContract(request))

\* left_click with a coordinate is refused
C2_Witness ==
    /\ request.action = "left_click"
    /\ request.coordinate.some
    /\ ~request.text.some
    /\ IsArgumentError(result)

\* C3: right_click, middle_click and double_click with no text and no
\* coordinate fail as unsupported, naming the action, on an ADB display, and
\* on a native monitor issue the click and return a confirmation.
C3_ClicksByBackend ==
    (/\ request.action \in {"right_click", "middle_click", "double_click"}
     /\ ~request.text.some
     /\ ~request.coordinate.some)
    => IF HasAdbDevice
       THEN IsUnsupported(result, request.action)
       ELSE /\ result.raised = ""
            /\ result.msg = "Performed"
            /\ Len(calls) = 1

\* C4: when a key action on the desktop ends with a failed key-down, none of
\* the keys it pressed is still held.
C4_FailedCombinationReleasesKeys ==
    (/\ ~HasAdbDevice
     /\ request.action = "key"
     /\ result.raised = "BackendError")
    => \A i \in DOMAIN calls :
          calls[i].fn = "keyDown" => calls[i].args[1] \notin held

\* C5: the native coordinate of a successful mouse_move or left_click_drag,
\* the offsets taken off, lies inside the native resolution.
C5_NativeCoordinateInBounds ==
    (/\ request.action \in {"mouse_move", "left_click_drag"}
     /\ _scaling_enabled
     /\ result.raised = "")
    => LET n == Len(result.args)
           x == result.args[n - 1] - offset[1]
           y == result.args[n] - offset[2]
       IN  /\ 0 <= x /\ x < selected_screen.width
           /\ 0 <= y /\ y < selected_screen.height

----------------------------------------------------------------------------
(* Claims about the derivation of the logical frame (SpecFrame) *)

Min(S) == CHOOSE m \in S : \A n \in S : m <= n

\* the display's ratio differs from the entry's by less than 0.02
WithinAbsolute(entry, w, h) ==
    50 * Abs(entry.width * h - w * entry.height) < entry.height * h

\* the display's ratio differs from the entry's by less than 2% of the
\* entry's ratio
WithinRelative(entry, w, h) ==
    50 * Abs(entry.width * h - w * entry.height) < entry.width * h

\* the reference rule: the first entry, in table order, that is within
\* tolerance (2% relative, or 0.02 absolute) and strictly narrower than the
\* display; WXGA when there is none
ReferenceFrame(relative, w, h) ==
    LET S == {i \in DOMAIN MAX_SCALING_TARGETS :
                 /\ IF relative
                    THEN WithinRelative(MAX_SCALING_TARGETS[i], w, h)
                    ELSE WithinAbsolute(MAX_SCALING_TARGETS[i], w, h)
                 /\ MAX_SCALING_TARGETS[i].width < w}
    IN  IF S = {} THEN "WXGA" ELSE MAX_SCALING_TARGETS[Min(S)].name

FrameDerived == request.action = "options"

\* C6 as stated: a display within tolerance of an entry and at least as wide
\* as it gets that entry as its logical frame; a display that matches no
\* entry gets WXGA.
C6_Original ==
    FrameDerived =>
        LET w == selected_screen.width
            h == selected_screen.height
            M == {i \in DOMAIN MAX_SCALING_TARGETS :
                     /\ WithinAbsolute(MAX_SCALING_TARGETS[i], w, h)
                     /\ w >= MAX_SCALING_TARGETS[i].width}
        IN  /\ \A i \in M : target_dimension = MAX_SCALING_TARGETS[i].name
            /\ M = {} => target_dimension = "WXGA"

\* C6 amended: a display within tolerance of an entry and strictly wider
\* than it gets that entry as its logical frame; a display for which no
\* entry is both within tolerance and strictly narrower gets WXGA.
C6_StrictlyWider ==
    FrameDerived =>
        LET w == selected_screen.width
            h == selected_screen.height
            M == {i \in DOMAIN MAX_SCALING_TARGETS :
                     /\ WithinAbsolute(MAX_SCALING_TARGETS[i], w, h)
                     /\ w > MAX_SCALING_TARGETS[i].width}
        IN  /\ \A i \in M : target_dimension = MAX_SCALING_TARGETS[i].name
            /\ M = {} => target_dimension = "WXGA"

\* a 16:9 display wider than FWXGA has derived FWXGA
C6_Witness ==
    /\ FrameDerived
    /\ selected_screen.width = 1920 /\ selected_screen.height = 1080
    /\ target_dimension = "FWXGA"

\* C7 as stated: the logical frame is the first entry within 2% relative of
\* the display's ratio and strictly narrower than it, WXGA when there is
\* none.
C7_Original ==
    FrameDerived =>
        target_dimension = ReferenceFrame(TRUE,
                                          selected_screen.width,
                                          selected_screen.height)

\* C7 amended: the logical frame is the first entry whose ratio differs from
\* the display's by less than 0.02 (absolute) and that is strictly narrower
\* than the display, WXGA when there is none.
C7_AbsoluteTolerance ==
    FrameDerived =>
        target_dimension = ReferenceFrame(FALSE,
                                          selected_screen.width,
                                          selected_screen.height)

\* a display with an entry's ratio that is not wider than the entry
C7_Witness ==
    /\ FrameDerived
    /\ selected_screen.width = 1024 /\ selected_screen.height = 768
    /\ target_dimension = "WXGA"

----------------------------------------------------------------------------
(* Claims about the conversions (SpecScale) *)

\* C8: a native coordinate inside the display, converted to logical space
\* and back, comes back without error and within 1 of the original on each
\* axis.
C8_RoundTrip ==
    (/\ probe.op = "roundtrip"
     /\ probe.x < selected_screen.width
     /\ probe.y < selected_screen.height)
    => /\ probe.error = ""
       /\ Abs(probe.nx - probe.x) <= 1
       /\ Abs(probe.ny - probe.y) <= 1

\* C9: an actor-supplied coordinate beyond (width - 1, height - 1) on either
\* axis is refused as out of bounds, and (width - 1, height - 1) itself is
\* converted.
C9_BoundaryCheck ==
    probe.op = "native" =>
        /\ (\/ probe.x > selected_screen.width - 1
            \/ probe.y > selected_screen.height - 1)
           => probe.error = "are out of bounds"
        /\ (/\ probe.x = selected_screen.width - 1
            /\ probe.y = selected_screen.height - 1)
           => probe.error = ""

----------------------------------------------------------------------------
(* Claims about the enumeration (SpecEnum) *)

Enumerated == probe.op = "enumerated" /\ probe.raised = ""

NativeDetails ==
    SelectSeq(probe.screen_details, LAMBDA d : d.type_ = MONITOR)

\* C10: the native monitors come back in ascending horizontal position with
\* ordinal equal to position; the first is Left, the last of two or more is
\* Right, the others are Center; a single monitor is marked Primary; and the
\* returned primary index is the ordinal of a display marked Primary.
C10_Enumeration ==
    Enumerated =>
        LET n == Len(probe.monitors)
            s == probe.sorted_screens
            d == NativeDetails
        IN  /\ Len(d) = n /\ Len(s) = n
            /\ {s[i].id : i \in 1..n} = 1..n
            /\ \A i \in 1..n - 1 : s[i].x <= s[i + 1].x
            /\ \A i \in 1..n :
                  /\ d[i] = probe.screen_details[i]
                  /\ d[i].index = i - 1
                  /\ d[i].width = s[i].width /\ d[i].height = s[i].height
                  /\ d[i].layout = IF i = 1 THEN "Left"
                                   ELSE IF i = n THEN "Right" ELSE "Center"
            /\ n = 1 => d[1].position = "Primary"
            /\ probe.primary_index \in 0..n - 1
            /\ d[probe.primary_index + 1].position = "Primary"

\* C11: when the remote endpoint cannot be reached, enumeration still ends
\* without an exception and returns exactly the native monitors, with no
\* remote entry.
C11_UnreachableEndpointTolerated ==
    (probe.op = "enumerated" /\ ~probe.adb_up) =>
        /\ probe.raised = ""
        /\ Len(probe.screen_details) = Len(probe.monitors)
        /\ \A i \in 1..Len(probe.screen_details) :
              probe.screen_details[i].type_ = MONITOR

----------------------------------------------------------------------------
(* Claims about the tracked pointer, the captures and the keys (Spec) *)

\* the request was neither refused for its arguments nor for its bounds
Accepted(res) == ~IsArgumentError(res) /\ ~IsOutOfBounds(res)

\* the native coordinates request req converts to, the offsets added
NativeTargets(req) ==
    {<<r.x + offset[1], r.y + offset[2]>> :
        r \in {c \in Conversions(req) : c.error = ""}}

\* C12: on an ADB display the tracked pointer position starts at (0, 0),
\* becomes the native coordinate of every mouse_move or left_click_drag that
\* returns, is changed by no other call, and is where left_click taps.
C12_TrackedPointer ==
    /\ HasAdbDevice => adb_mouse = <<0, 0>>
    /\ [][HasAdbDevice =>
            /\ IF /\ request'.action \in {"mouse_move", "left_click_drag"}
                  /\ result'.raised = ""
               THEN adb_mouse' \in NativeTargets(request')
               ELSE adb_mouse' = adb_mouse
            /\ (request'.action = "left_click" /\ result'.raised = "")
               => calls' = <<Call("shell input tap", adb_mouse)>>
         ]_vars

\* C13: a left_click_drag that passes the argument and bounds checks returns
\* the confirmation of the drag on either backend; on an ADB display its
\* swipe runs from the tracked position to the converted target.
C13_DragConfirmed ==
    [][(request'.action = "left_click_drag" /\ Accepted(result')) =>
          /\ result'.raised = ""
          /\ result'.msg = "Dragged mouse from"
          /\ HasAdbDevice =>
                \E t \in NativeTargets(request') :
                    calls' = <<Call("swipe", <<adb_mouse[1], adb_mouse[2],
                                               t[1], t[2]>>)>>
      ]_vars

\* the logical frame scale_coordinates converts with on the bound display
ScalerFrame ==
    Target(ChosenTarget(selected_screen.width, selected_screen.height))

\* C14: every image a screenshot or type action returns has the width and
\* height of the logical frame the scaler uses on that display.
C14_ImageHasFrameSize ==
    (/\ request.action \in {"screenshot", "type"}
     /\ result.raised = ""
     /\ result.base64_image # NoImage)
    => result.base64_image = <<ScalerFrame.width, ScalerFrame.height>>

\* C15: on an ADB display, cursor_position after a mouse_move that returned,
\* with no move or drag in between, reports the logical coordinate of that
\* move within one unit on either axis.
C15_ReportedNearCommanded ==
    (/\ HasAdbDevice
     /\ request.action = "cursor_position"
     /\ result.raised = ""
     /\ history.move # <<>>)
    => /\ Abs(result.args[1] - history.move[1]) <= 1
       /\ Abs(result.args[2] - history.move[2]) <= 1

\* C16: with scaling enabled, once target_dimension has a value no call of
\* the adapter gives it another one.
C16_FrameNeverChanges ==
    [][(_scaling_enabled /\ target_dimension # "unset")
          => target_dimension' = target_dimension]_vars

\* the backend calls cs include the padding of the captured image
Padded(cs) == \E i \in DOMAIN cs : cs[i].fn = "padding_image"

\* the image of the bound display is narrower than 16:10
NarrowerThan16To10 ==
    selected_screen.width * 10 < selected_screen.height * 16

\* C17: on a native monitor the image is padded in the first capture the
\* adapter ever returns, when the display is narrower than 16:10, and in no
\* later capture, whatever requests came before the first capture.
C17_PaddingOnFirstCaptureOnly ==
    [][(/\ ~HasAdbDevice
        /\ request'.action \in {"screenshot", "type"}
        /\ result'.raised = ""
        /\ result'.base64_image # NoImage)
       => /\ history.captured => ~Padded(calls')
          /\ (~history.captured /\ NarrowerThan16To10) => Padded(calls')
      ]_vars

\* the native coordinates a newly constructed adapter (offsets 0) passes to
\* the backend for request req
FreshTargets(req) ==
    {<<r.x, r.y>> : r \in {c \in Conversions(req) : c.error = ""}}

\* C18: on a native monitor the coordinate a mouse_move passes to the
\* backend is the one a newly constructed adapter passes for the same
\* logical coordinate, whatever requests, captures included, came before.
C18_MappingIndependentOfHistory ==
    (/\ ~HasAdbDevice
     /\ request.action = "mouse_move"
     /\ result.raised = "")
    => \E t \in FreshTargets(request) : calls = <<Call("moveTo", t)>>

\* C19: with scaling enabled, mouse_move accepts every coordinate inside the
\* logical frame of the bound display.
C19_FrameCoordinateAccepted ==
    (/\ _scaling_enabled
     /\ request.action = "mouse_move"
     /\ ~request.text.some
     /\ request.coordinate.some
     /\ WellFormed(request.coordinate)
     /\ request.coordinate.v[1].n < ScalerFrame.width
     /\ request.coordinate.v[2].n < ScalerFrame.height)
    => result.raised = ""

\* the names the keys of a combination are injected under
Injected(keys) == {ConvertKey(keys[i]) : i \in DOMAIN keys}

C20_WitnessSameKeyTwice ==
    /\ ~HasAdbDevice
    /\ request.action = "key"
    /\ result.raised = ""
    /\ request.text.keys = <<"Ctrl", "Ctrl">>
    /\ Len(calls) = 4
    /\ held = {}

\* the key events the device receives from the shell calls cs: input
\* keyevent sends one event per key code on its command line
RECURSIVE KeyEvents(_)
KeyEvents(cs) ==
    IF cs = <<>> THEN <<>>
    ELSE IF Head(cs).fn = "shell input keyevent"
    THEN Head(cs).args \o KeyEvents(Tail(cs))
    ELSE KeyEvents(Tail(cs))

\* how many times key k occurs in the sequence s
Occurrences(k, s) == Cardinality({i \in DOMAIN s : s[i] = k})

\* C21: on an ADB display a key action with a combination of n keys sends
\* the device n key events in all, each key of the combination as many
\* times as the combination names it.
C21_EachKeySentOnce ==
    (/\ HasAdbDevice
     /\ request.action = "key"
     /\ result.raised = "")
    => LET keys == request.text.keys
           events == KeyEvents(calls)
       IN  /\ Len(events) = Len(keys)
           /\ \A i \in DOMAIN keys :
                 Occurrences(keys[i], events) = Occurrences(keys[i], keys)

====
